---- MODULE Spec2Model ----
(***************************************************************************)
(* Time_Tracker: the interval store (SQLAlchemyDB), the aggregation engine *)
(* (AnalysisGraphDFs) and the duration formatters (TimerFuncs).            *)
(*                                                                         *)
(* Timestamps are records [day, tod]: day is the proleptic Gregorian       *)
(* ordinal of the calendar date (date.toordinal()), tod the time of day in *)
(* ticks of 1/TicksPerSec second.  Formatted strings are sequences of      *)
(* one-character strings, so that their fields can be parsed back.         *)
(***************************************************************************)
EXTENDS Integers, Sequences, FiniteSets, TLC

VARIABLES
    category,   \* the category table: rows [id, activity, grouping] in rowid order
    log,        \* the log table: rows [id, taskid, start, stop] in rowid order
    ret,        \* the aggregation call just made and what it returned
    fmt_arg,    \* the total_seconds handed to a formatter
    fmt_ret,    \* the formatter call just made and the text it returned
    timer,      \* the attributes of the TimerFrame and the state of its reset buttons
    setup,      \* the SetupFrame: the state of its Set Timer button
    tk,         \* Tk: the callbacks scheduled with after(), the seconds gone by
                \* and the message boxes open
    event,      \* the handler of the timer, setup and log tabs run last, with its arguments
    log_frame   \* the LogFrame: the view selected, the dataframes it keeps, the
                \* commands of the headings of its tree and the rows the tree shows
VARIABLE
    sort_history    \* history: for each column of each view, the direction of the
                    \* last sort a click on its heading made, "none" before the first

vars == <<category, log, ret, fmt_arg, fmt_ret, timer, setup, tk, event, log_frame,
          sort_history>>

\* the state of the timer, setup and log tabs
gui == <<timer, setup, tk, event, log_frame, sort_history>>

(***************************************************************************)
(* Bounds of the model.                                                    *)
(***************************************************************************)
\* rows the log table may hold (the dummy row of the constructor included)
MaxLog == 3
\* rows the category table may hold at one time
MaxActivities == 2
\* largest primary key the category table hands out
MaxId == 3
\* resolution of a timestamp: ticks per second
TicksPerSec == 4
\* date.today(), as an ordinal: 738960 is Friday 2024-03-15
Today == 738960
\* largest hour count given to the formatters
MaxHours == 121

TicksPerDay == 24 * 3600 * TicksPerSec

(***************************************************************************)
(* Calendar: datetime.date, Series.dt.weekday / day_name / strftime.       *)
(***************************************************************************)
DayNames == <<"Monday", "Tuesday", "Wednesday", "Thursday", "Friday", "Saturday", "Sunday">>

MonthAbbr == <<"Jan", "Feb", "Mar", "Apr", "May", "Jun", "Jul", "Aug", "Sep", "Oct", "Nov", "Dec">>

DaysInMonth == <<31, 28, 31, 30, 31, 30, 31, 31, 30, 31, 30, 31>>

DaysBeforeMonth == <<0, 31, 59, 90, 120, 151, 181, 212, 243, 273, 304, 334>>

\* date.weekday(): Monday = 0 .. Sunday = 6
weekday(day) == (day + 6) % 7

\* Series.dt.day_name()
day_name(day) == DayNames[weekday(day) + 1]

\* date.fromordinal: the (year, month, day of month) of an ordinal
ymd(day) ==
    LET n0     == day - 1
        n400   == n0 \div 146097
        r400   == n0 % 146097
        n100   == r400 \div 36524
        r100   == r400 % 36524
        n4     == r100 \div 1461
        r4     == r100 % 1461
        n1     == r4 \div 365
        n      == r4 % 365
        year   == n400 * 400 + 1 + n100 * 100 + n4 * 4 + n1
        leap   == n1 = 3 /\ (n4 # 24 \/ n100 = 3)
        m0     == (n + 50) \div 32
        before(m) == DaysBeforeMonth[m] + (IF m > 2 /\ leap THEN 1 ELSE 0)
        month  == IF before(m0) > n THEN m0 - 1 ELSE m0
    IN  IF n1 = 4 \/ n100 = 4
        THEN [year |-> year - 1, month |-> 12, dom |-> 31]
        ELSE [year |-> year, month |-> month, dom |-> n - before(month) + 1]

(***************************************************************************)
(* Text: str(int), the format specification ":02", strftime.               *)
(***************************************************************************)
Digits == <<"0", "1", "2", "3", "4", "5", "6", "7", "8", "9">>

\* str(n) for n >= 0, as a sequence of characters
RECURSIVE Dec(_)
Dec(n) == IF n < 10 THEN <<Digits[n + 1]>> ELSE Dec(n \div 10) \o <<Digits[(n % 10) + 1]>>

\* left-pad a digit string with zeros up to a width
RECURSIVE ZeroPad(_, _)
ZeroPad(s, width) == IF Len(s) >= width THEN s ELSE ZeroPad(<<"0">> \o s, width)

\* f'{n:02}': the sign counts towards the width, longer numbers are kept whole
Fmt02(n) == IF n < 0 THEN <<"-">> \o ZeroPad(Dec(-n), 1) ELSE ZeroPad(Dec(n), 2)

\* the month alone, strftime('%m'), the year left out of the key
year_month_no_year(d) == ZeroPad(Dec(d.month), 2)

\* strftime('%Y %m') of a date [year, month, dom]; %Y is not padded for the
\* years of the model (>= 1000)
year_month(d) == Dec(d.year) \o <<" ">> \o ZeroPad(Dec(d.month), 2)

\* strftime('%b') of a date [year, month, dom]
month_name(d) == MonthAbbr[d.month]

(***************************************************************************)
(* TimerFuncs and TimeDeltaDays (datetimefuncs.py).                        *)
(* floor(total_seconds / 60 / 60) is the floor of the quotient by 3600.    *)
(***************************************************************************)
\* formatted_time without the wrap of the hour field
formatted_time_nowrap(total_seconds) ==
    LET hours   == total_seconds \div 3600
        minutes == (total_seconds \div 60) % 60
        seconds == total_seconds % 60
    IN  Fmt02(hours) \o <<":">> \o Fmt02(minutes) \o <<":">> \o Fmt02(seconds)

formatted_time(total_seconds) ==
    LET hours   == (total_seconds \div 3600) % 24
        minutes == (total_seconds \div 60) % 60
        seconds == total_seconds % 60
    IN  Fmt02(hours) \o <<":">> \o Fmt02(minutes) \o <<":">> \o Fmt02(seconds)

\* get_total_seconds with the minutes added as if they were seconds
get_total_seconds_plain_minutes(hours, minutes, seconds) == hours * 3600 + minutes + seconds

get_total_seconds(hours, minutes, seconds) == hours * 3600 + minutes * 60 + seconds

\* get_time_hms with the hour field wrapped as a clock does
get_time_hms_wrap(total_seconds) ==
    LET hours   == (total_seconds \div 3600) % 24
        minutes == (total_seconds \div 60) % 60
        seconds == total_seconds % 60
    IN  Fmt02(hours) \o <<":">> \o Fmt02(minutes) \o <<":">> \o Fmt02(seconds)

get_time_hms(total_seconds) ==
    LET hours   == total_seconds \div 3600
        minutes == (total_seconds \div 60) % 60
        seconds == total_seconds % 60
    IN  Fmt02(hours) \o <<":">> \o Fmt02(minutes) \o <<":">> \o Fmt02(seconds)

\* a window one day short
last_seven_days_short == Today - 6

last_seven_days == Today - 7

last_thirty_days == Today - 30

(***************************************************************************)
(* Helpers for the dataframe operations.                                   *)
(***************************************************************************)
\* the elements of a finite set of integers in ascending order
RECURSIVE SortedSeq(_)
SortedSeq(S) ==
    IF S = {} THEN <<>>
    ELSE LET m == CHOOSE x \in S : \A y \in S : x <= y
         IN  <<m>> \o SortedSeq(S \ {m})

\* Series.sum() of an integer column, given as a sequence
RECURSIVE SumSeq(_)
SumSeq(col) == IF col = <<>> THEN 0 ELSE Head(col) + SumSeq(Tail(col))

\* Series.round(): to the nearest integer, ties to the even one
RoundHalfEven(num, den) ==
    LET q == num \div den
        r == num % den
    IN  IF 2 * r < den THEN q
        ELSE IF 2 * r > den THEN q + 1
        ELSE IF q % 2 = 0 THEN q ELSE q + 1

\* stop - start of two timestamps, in ticks
TimeDelta(start, stop) == (stop.day - start.day) * TicksPerDay + (stop.tod - start.tod)

\* position of a weekday name in alphabetical order (the order of astype('category'))
AlphaDayNames == <<"Friday", "Monday", "Saturday", "Sunday", "Thursday", "Tuesday", "Wednesday">>

AlphaIndex(name) == CHOOSE i \in 1..7 : AlphaDayNames[i] = name

\* Series.astype('category'): the sorted distinct values, unordered
AsCategory(names) ==
    [categories |-> SelectSeq(AlphaDayNames, LAMBDA n : n \in names), ordered |-> FALSE]

\* cat.reorder_categories(DayNames, ordered=True): raises ValueError unless the
\* new categories are the old ones in another order
reorder_categories(cat) ==
    IF {cat.categories[i] : i \in 1..Len(cat.categories)} = {DayNames[i] : i \in 1..7}
    THEN [raised |-> FALSE, categories |-> DayNames, ordered |-> TRUE]
    ELSE [raised |-> TRUE, categories |-> cat.categories, ordered |-> cat.ordered]

(***************************************************************************)
(* AnalysisGraphDFs (dbsanddfs.py).  A dataframe is a record: raised tells *)
(* that the call ended with an exception instead of a return value, rows   *)
(* are the rows in order, categories / ordered are the category levels of  *)
(* the DayOfWeek column, when it has been made categorical.                *)
(***************************************************************************)
Raised == [raised |-> TRUE, rows |-> <<>>, categories |-> <<>>, ordered |-> FALSE]

Frame(rows) == [raised |-> FALSE, rows |-> rows, categories |-> <<>>, ordered |-> FALSE]

\* the keys of a groupby in ascending order; rank maps each key to its sort position
SortedKeys(keys, rank) ==
    LET s == SortedSeq({rank[k] : k \in keys})
    IN  [i \in 1..Len(s) |-> CHOOSE k \in keys : rank[k] = s[i]]

\* a column of a dataframe
Column(rows, name) == [i \in 1..Len(rows) |-> rows[i][name]]

\* the sum taken over the whole column, whatever the key
GroupSumAll(keys, values, k) == SumSeq(values)

\* groupby(keys)[values].sum() for the group of one key: keys and values are
\* columns of the same dataframe
GroupSum(keys, values, k) ==
    LET members == SelectSeq([i \in 1..Len(keys) |-> i], LAMBDA i : keys[i] = k)
    IN  SumSeq([j \in 1..Len(members) |-> values[members[j]]])

\* the join taken as a left join: the intervals of deleted activities are
\* kept, with no activity name
get_log_df_left_join(cat, lg) ==
    LET Enrich(l) ==
            LET c        == IF \E i \in 1..Len(cat) : cat[i].id = l.taskid
                            THEN cat[CHOOSE i \in 1..Len(cat) : cat[i].id = l.taskid]
                            ELSE [id |-> l.taskid, activity |-> "", grouping |-> ""]
                duration == TimeDelta(l.start, l.stop)
            IN  [id |-> l.id, activity |-> c.activity, grouping |-> c.grouping,
                 start |-> l.start, stop |-> l.stop, duration |-> duration,
                 date |-> l.start.day, DayOfWeek |-> day_name(l.start.day),
                 seconds_duration |-> RoundHalfEven(duration, TicksPerSec)]
    IN  IF lg = <<>> THEN Raised
        ELSE Frame([i \in 1..Len(lg) |-> Enrich(lg[i])])

\* select log joined to category on taskid = id, then the derived columns.
\* pd.DataFrame([]) has no columns, so df['stop'] raises KeyError on an empty join.
get_log_df(cat, lg) ==
    LET joined == SelectSeq(lg, LAMBDA l : \E i \in 1..Len(cat) : cat[i].id = l.taskid)
        Enrich(l) ==
            LET c        == cat[CHOOSE i \in 1..Len(cat) : cat[i].id = l.taskid]
                duration == TimeDelta(l.start, l.stop)
            IN  [id |-> l.id, activity |-> c.activity, grouping |-> c.grouping,
                 start |-> l.start, stop |-> l.stop, duration |-> duration,
                 date |-> l.start.day, DayOfWeek |-> day_name(l.start.day),
                 seconds_duration |-> RoundHalfEven(duration, TicksPerSec)]
    IN  IF joined = <<>> THEN Raised
        ELSE Frame([i \in 1..Len(joined) |-> Enrich(joined[i])])

\* the key column of groupby(['date', 'DayOfWeek'])
DayKeys(rows) == [i \in 1..Len(rows) |-> <<rows[i].date, rows[i].DayOfWeek>>]

\* the (date, DayOfWeek) groups of a log dataframe, sorted by date, then by name
DayGroups(rows) ==
    LET keys == {DayKeys(rows)[i] : i \in 1..Len(rows)}
    IN  SortedKeys(keys, [k \in keys |-> k[1] * 7 + AlphaIndex(k[2]) - 1])

\* the reordering without try / except: its ValueError ends the call
WithDayOrderNoTry(rows) ==
    LET cat == AsCategory({rows[i].DayOfWeek : i \in 1..Len(rows)})
        try == reorder_categories(cat)
    IN  IF try.raised THEN Raised
        ELSE [raised |-> FALSE, rows |-> rows, categories |-> try.categories, ordered |-> try.ordered]

\* the DayOfWeek column of a summary made categorical, then the reordering in
\* try / except ValueError: the error is printed and the column left as it was
WithDayOrder(rows) ==
    LET cat == AsCategory({rows[i].DayOfWeek : i \in 1..Len(rows)})
        try == reorder_categories(cat)
    IN  IF try.raised
        THEN [raised |-> FALSE, rows |-> rows, categories |-> cat.categories, ordered |-> cat.ordered]
        ELSE [raised |-> FALSE, rows |-> rows, categories |-> try.categories, ordered |-> try.ordered]

get_df_log_summary(cat, lg) ==
    LET df == get_log_df(cat, lg)
        groups == DayGroups(df.rows)
        Row(k) ==
            LET seconds_duration ==
                    GroupSum(DayKeys(df.rows), Column(df.rows, "seconds_duration"), k)
            IN  [date |-> k[1], DayOfWeek |-> k[2], hms_duration |-> get_time_hms(seconds_duration)]
    IN  IF df.raised THEN Raised
        ELSE WithDayOrder([i \in 1..Len(groups) |-> Row(groups[i])])

\* the week taken to start on Sunday
week_start_sunday(start) == start.day - ((weekday(start.day) + 1) % 7)

\* start minus its weekday in days, then the date of it
week_start(start) == start.day - weekday(start.day)

get_df_log_summary_weeks(cat, lg) ==
    LET df == get_log_df(cat, lg)
        week_starts == [i \in 1..Len(df.rows) |-> week_start(df.rows[i].start)]
        keys == {week_starts[i] : i \in 1..Len(df.rows)}
        groups == SortedKeys(keys, [k \in keys |-> k])
        Row(k) ==
            LET seconds_duration ==
                    GroupSum(week_starts, Column(df.rows, "seconds_duration"), k)
            IN  [week_start |-> k, day |-> "Monday", hms_duration |-> get_time_hms(seconds_duration)]
    IN  IF df.raised THEN Raised
        ELSE Frame([i \in 1..Len(groups) |-> Row(groups[i])])

get_df_log_summary_months(cat, lg) ==
    LET df == get_log_df(cat, lg)
        \* the two new columns, and the position of the key in sorted order:
        \* "YYYY MM" strings sort as the numbers year * 12 + month do
        cols == [i \in 1..Len(df.rows) |->
                    LET d == ymd(df.rows[i].start.day)
                    IN  [key |-> <<year_month(d), month_name(d)>>,
                         rank |-> d.year * 12 + d.month]]
        months == Column(cols, "key")
        keys == {months[i] : i \in 1..Len(df.rows)}
        RankOf(k) == cols[CHOOSE i \in 1..Len(df.rows) : months[i] = k].rank
        groups == SortedKeys(keys, [k \in keys |-> RankOf(k)])
        Row(k) ==
            LET seconds_duration == GroupSum(months, Column(df.rows, "seconds_duration"), k)
            IN  [year_month |-> k[1], month_name |-> k[2],
                 hms_duration |-> get_time_hms(seconds_duration)]
    IN  IF df.raised THEN Raised
        ELSE Frame([i \in 1..Len(groups) |-> Row(groups[i])])

\* get_df_summary with every days value used as a window
get_df_summary_filtered(cat, lg, days) ==
    LET df == get_log_df(cat, lg)
        groups == DayGroups(df.rows)
        Row(k) ==
            LET duration == GroupSum(DayKeys(df.rows), Column(df.rows, "duration"), k)
            IN  [date |-> k[1], DayOfWeek |-> k[2],
                 duration |-> [num |-> duration, den |-> 3600 * TicksPerSec]]
        df_summary == WithDayOrder([i \in 1..Len(groups) |-> Row(groups[i])])
        df_plot == [df_summary EXCEPT !.rows = SelectSeq(@, LAMBDA r : r.date >= Today - days)]
    IN  IF df.raised THEN Raised ELSE df_plot

\* duration is the summed timedelta divided by one hour: the fraction num / den
get_df_summary(cat, lg, days) ==
    LET df == get_log_df(cat, lg)
        groups == DayGroups(df.rows)
        Row(k) ==
            LET duration == GroupSum(DayKeys(df.rows), Column(df.rows, "duration"), k)
            IN  [date |-> k[1], DayOfWeek |-> k[2],
                 duration |-> [num |-> duration, den |-> 3600 * TicksPerSec]]
        df_summary == WithDayOrder([i \in 1..Len(groups) |-> Row(groups[i])])
        df_plot ==
            IF days = 7
            THEN [df_summary EXCEPT !.rows = SelectSeq(@, LAMBDA r : r.date >= last_seven_days)]
            ELSE IF days = 30
            THEN [df_summary EXCEPT !.rows = SelectSeq(@, LAMBDA r : r.date >= last_thirty_days)]
            ELSE df_summary
    IN  IF df.raised THEN Raised ELSE df_plot

(***************************************************************************)
(* SQLAlchemyDB (dbsanddfs.py): the two tables and their operations.       *)
(***************************************************************************)
InitActivity == "Add Tasks on the Setup Tab"

InitGrouping == "Double click to edit"

\* activity names and groupings a user enters
Activities == {"A"}

Groupings == {"G"}

\* noon, in ticks since midnight
Noon == 12 * 3600 * TicksPerSec

At(day, tod) == [day |-> day, tod |-> tod]

\* a timestamp some ticks later
AddTicks(t, d) == At(t.day + (t.tod + d) \div TicksPerDay, (t.tod + d) % TicksPerDay)

\* the day the database file was created, more than a year before today
FirstRun == Today - 366

\* start timestamps of the intervals logged: on the first day, and around the
\* 30 and 7 day windows at both ends of the day
Starts ==
    { At(FirstRun, Noon),
      At(Today - 31, TicksPerDay - 1), At(Today - 30, 0),
      At(Today - 8, TicksPerDay - 1), At(Today - 7, 0) }

\* a timestamp is not later than another
NotAfter(t, u) == t.day < u.day \/ (t.day = u.day /\ t.tod <= u.tod)

\* lengths of the intervals logged, in ticks: just under a second, and 25 hours
\* and half a second
Durations == { TicksPerSec - 1, 25 * 3600 * TicksPerSec + TicksPerSec \div 2 }

\* INTEGER PRIMARY KEY of SQLite: one more than the largest rowid in the table
NextId(table) ==
    IF table = <<>> THEN 1
    ELSE 1 + (CHOOSE m \in {table[i].id : i \in 1..Len(table)} :
                \A i \in 1..Len(table) : table[i].id <= m)

NoRet == [op |-> "none", days |-> 0, raised |-> FALSE, rows |-> <<>>,
          categories |-> <<>>, ordered |-> FALSE]

NoFmtRet == [op |-> "none", text |-> <<>>]

\* the return value of an aggregation call
Returned(op, days, df) ==
    [op |-> op, days |-> days, raised |-> df.raised, rows |-> df.rows,
     categories |-> df.categories, ordered |-> df.ordered]

(***************************************************************************)
(* The log tab (LogFrame): the three summaries fetched when the frame is   *)
(* built, a tree that shows one of them, and headings that sort it.        *)
(***************************************************************************)
\* the characters of the formatted texts, in the order of their code points
Chars == <<" ", "0", "1", "2", "3", "4", "5", "6", "7", "8", "9", ":">>

ord(c) == CHOOSE i \in 1..Len(Chars) : Chars[i] = c

\* str < str of Python, on texts
TextLess(a, b) ==
    \E k \in 1..(Len(a) + 1) :
        /\ k <= Len(b)
        /\ \A i \in 1..(k - 1) : a[i] = b[i]
        /\ k <= Len(a) => ord(a[k]) < ord(b[k])

\* the month abbreviations in alphabetical order
AlphaMonthAbbr == <<"Apr", "Aug", "Dec", "Feb", "Jan", "Jul", "Jun", "Mar", "May",
                    "Nov", "Oct", "Sep">>

\* the order sort_values puts on the values of a column: dates by the
\* calendar, a categorical by its codes, strings as Python compares them
ValueLess(df, column, x, y) ==
    CASE column \in {"date", "week_start"} -> x < y
      [] column = "DayOfWeek" ->
            (CHOOSE i \in 1..Len(df.categories) : df.categories[i] = x)
                < (CHOOSE i \in 1..Len(df.categories) : df.categories[i] = y)
      [] column = "day" -> FALSE
      [] column = "month_name" ->
            (CHOOSE i \in 1..12 : AlphaMonthAbbr[i] = x)
                < (CHOOSE i \in 1..12 : AlphaMonthAbbr[i] = y)
      [] column \in {"year_month", "hms_duration"} -> TextLess(x, y)

\* df.sort_values(by=[column], ascending=ascending): the orders of the rows
\* it may leave; the default quicksort settles equal values either way
sort_values(df, column, ascending) ==
    LET n == Len(df.rows)
        InOrder(q) ==
            \A i, j \in 1..n :
                i < j => IF ascending
                         THEN ~ValueLess(df, column, df.rows[q[j]][column], df.rows[q[i]][column])
                         ELSE ~ValueLess(df, column, df.rows[q[i]][column], df.rows[q[j]][column])
    IN  {[i \in 1..n |-> df.rows[q[i]]] : q \in {r \in Permutations(1..n) : InOrder(r)}}

\* create_tree: the columns of each view
column_header_dict ==
    [Days   |-> {"date", "DayOfWeek", "hms_duration"},
     Weeks  |-> {"week_start", "day", "hms_duration"},
     Months |-> {"year_month", "month_name", "hms_duration"}]

\* update_tree with df None: the tree shows the dataframe kept for the view
update_tree(lf) == [lf EXCEPT !.tree = lf.df_method_dict[lf.seg_button_var].rows]

\* create_tree: a new tree whose headings call sort_column(column=col), and
\* update_tree
create_tree(lf, seg_button_value) ==
    update_tree([lf EXCEPT !.heading = [col \in column_header_dict[seg_button_value] |->
                                            [bound |-> "create_tree"]]])

\* LogFrame.__init__ and create_widgets: the three summaries of the store
\* as it is then, and the tree of the daily view
LogFrame(cat, lg) ==
    create_tree([seg_button_var |-> "Days",
                 df_method_dict |-> [Days   |-> get_df_log_summary(cat, lg),
                                     Weeks  |-> get_df_log_summary_weeks(cat, lg),
                                     Months |-> get_df_log_summary_months(cat, lg)],
                 heading |-> <<>>,
                 tree |-> <<>>],
                "Days")

\* no heading was clicked yet
NoSortHistory ==
    [v \in DOMAIN column_header_dict |-> [col \in column_header_dict[v] |-> "none"]]

\* what the command of a heading passes as ascending: the default False of
\* sort_column from the lambda of create_tree, not ascending from the lambda
\* of sort_column, which holds the ascending of the sort before
HeadingCommand(lf, column) ==
    IF lf.heading[column].bound = "create_tree" THEN FALSE
    ELSE ~lf.heading[column].ascending

\* LogFrame.sort_column: the dataframe kept for the view is sorted in place
\* (sort_values returns None), the heading gets the command that sorts the
\* other way, and update_tree(df=None) shows the dataframe kept
sort_column(lf, column, ascending) ==
    {update_tree([lf EXCEPT !.df_method_dict[lf.seg_button_var].rows = sorted,
                            !.heading[column] = [bound |-> "sort_column",
                                                 ascending |-> ascending]]) :
        sorted \in sort_values(lf.df_method_dict[lf.seg_button_var], column, ascending)}

(***************************************************************************)
(* The timer tab (TimerFrame) and the Set Timer button of the setup tab.   *)
(* A handler is a function of the world it runs in: the timer, the setup   *)
(* frame, Tk and the log table.  A message box keeps the handler that      *)
(* opened it waiting: tk.dialogs is the stack of the boxes open, each with *)
(* the name of the handler that goes on when it is closed.                 *)
(***************************************************************************)
\* TimerFrame.__init__ and create_widgets: a goal of eight hours, nothing
\* scheduled, no start timestamp; timestamp_start is <<>> for None
TimerFrame ==
    [running |-> FALSE,
     seconds_cd |-> get_total_seconds(8, 0, 0),
     start_seconds_cd |-> get_total_seconds(8, 0, 0),
     seconds_sw |-> 0,
     update_time |-> 0,
     timestamp_start |-> <<>>,
     progress_calc |-> [num |-> 0, den |-> 1],
     countdown_label |-> formatted_time(get_total_seconds(8, 0, 0)),
     stopwatch_label |-> formatted_time(0),
     resetcd_button |-> "normal",
     resetsw_button |-> "normal"]

SetupFrame == [set_timer_button |-> "normal"]

Tk == [after |-> {}, now |-> 0, dialogs |-> <<>>]

NoEvent == [op |-> "none"]

World == [timer |-> timer, setup |-> setup, tk |-> tk, log |-> log]

\* datetime.now(): the application runs today, from noon on
datetime_now(w) == At(Today, Noon + w.tk.now * TicksPerSec)

\* widget.after(1000, callback): the identifier of the callback scheduled,
\* one that names no other callback
after(w) ==
    CHOOSE id \in 1..(Cardinality(w.tk.after) + 2) :
        /\ id \notin w.tk.after \cup {w.timer.update_time}
        /\ \A other \in 1..(id - 1) : other \in w.tk.after \cup {w.timer.update_time}

\* showinfo(...): the box is open and the handler waits for it
showinfo(w, handler) == [w EXCEPT !.tk.dialogs = Append(@, handler)]

\* SQLAlchemyDB('data.db') on a new file, on the first day: one placeholder
\* activity and one dummy log entry with no elapsed time
Init ==
    /\ category = << [id |-> 1, activity |-> InitActivity, grouping |-> InitGrouping] >>
    /\ log = << [id |-> 1, taskid |-> 1, start |-> At(FirstRun, Noon), stop |-> At(FirstRun, Noon)] >>
    /\ ret = NoRet
    /\ fmt_arg = 0
    /\ fmt_ret = NoFmtRet
    /\ timer = TimerFrame
    /\ setup = SetupFrame
    /\ tk = Tk
    /\ event = NoEvent
    /\ log_frame = LogFrame(category, log)
    /\ sort_history = NoSortHistory

insert_timestamp(activity, start, stop) ==
    /\ Len(log) < MaxLog
    /\ log' = Append(log, [id |-> NextId(log), taskid |-> activity, start |-> start, stop |-> stop])
    /\ ret' = NoRet
    /\ UNCHANGED <<category, fmt_arg, fmt_ret, timer, setup, tk, event, log_frame, sort_history>>

insert_activity(activity, grouping) ==
    /\ Len(category) < MaxActivities
    /\ NextId(category) <= MaxId
    /\ category' = Append(category, [id |-> NextId(category), activity |-> activity,
                                     grouping |-> grouping])
    /\ ret' = NoRet
    /\ UNCHANGED <<log, fmt_arg, fmt_ret, timer, setup, tk, event, log_frame, sort_history>>

delete_activity(activity, grouping) ==
    /\ category' = SelectSeq(category, LAMBDA c : ~(c.activity = activity /\ c.grouping = grouping))
    /\ ret' = NoRet
    /\ UNCHANGED <<log, fmt_arg, fmt_ret, timer, setup, tk, event, log_frame, sort_history>>

update_activity(old_activity, old_category, new_activity, new_category) ==
    /\ category' = [i \in 1..Len(category) |->
                      IF category[i].activity = old_activity /\ category[i].grouping = old_category
                      THEN [category[i] EXCEPT !.activity = new_activity, !.grouping = new_category]
                      ELSE category[i]]
    /\ ret' = NoRet
    /\ UNCHANGED <<log, fmt_arg, fmt_ret, timer, setup, tk, event, log_frame, sort_history>>

(***************************************************************************)
(* The operations as the application performs them.                        *)
(***************************************************************************)
\* TimerFrame.pause: the activity is one of the category table, and the start
\* timestamp, the clock's, is not before the start of the row logged last
InsertTimestamp ==
    \E i \in 1..Len(category), start \in Starts, d \in Durations :
        /\ log # <<>> => NotAfter(log[Len(log)].start, start)
        /\ insert_timestamp(category[i].id, start, AddTicks(start, d))

\* the activity names offered by the timer tab, refreshed from the category
\* table after every add, edit and delete
option_menu_list == {category[i].activity : i \in 1..Len(category)}

\* what the user types into the activity entry of the add and edit windows:
\* a name, or nothing
ActivityEntries == Activities \cup {""}

\* EntryModifyWindow.ok_command_add_callback: a blank name and a name already
\* offered are refused with a warning
InsertActivity ==
    \E a \in ActivityEntries, g \in Groupings :
        /\ a # ""
        /\ a \notin option_menu_list
        /\ insert_activity(a, g)

\* SetupFrame.delete_activity_entry: the row selected in the tree
DeleteActivity ==
    \E i \in 1..Len(category) : delete_activity(category[i].activity, category[i].grouping)

\* EntryModifyWindow.ok_command_edit_callback: the row selected in the tree;
\* a blank name is refused with a warning
UpdateActivity ==
    \E i \in 1..Len(category), a \in ActivityEntries, g \in Groupings :
        /\ a # ""
        /\ <<a, g>> # <<category[i].activity, category[i].grouping>>
        /\ update_activity(category[i].activity, category[i].grouping, a, g)

\* get_log_df writing its cleaned-up rows back over the log table
GetLogDfWritingBack ==
    /\ ret' = Returned("get_log_df", 0, get_log_df(category, log))
    /\ log' = SelectSeq(log, LAMBDA l : \E i \in 1..Len(category) : category[i].id = l.taskid)
    /\ UNCHANGED <<category, fmt_arg, fmt_ret, timer, setup, tk, event, log_frame, sort_history>>

GetLogDf ==
    /\ ret' = Returned("get_log_df", 0, get_log_df(category, log))
    /\ UNCHANGED <<category, log, fmt_arg, fmt_ret, timer, setup, tk, event, log_frame, sort_history>>

GetDfLogSummary ==
    /\ ret' = Returned("get_df_log_summary", 0, get_df_log_summary(category, log))
    /\ UNCHANGED <<category, log, fmt_arg, fmt_ret, timer, setup, tk, event, log_frame, sort_history>>

GetDfLogSummaryWeeks ==
    /\ ret' = Returned("get_df_log_summary_weeks", 0, get_df_log_summary_weeks(category, log))
    /\ UNCHANGED <<category, log, fmt_arg, fmt_ret, timer, setup, tk, event, log_frame, sort_history>>

GetDfLogSummaryMonths ==
    /\ ret' = Returned("get_df_log_summary_months", 0, get_df_log_summary_months(category, log))
    /\ UNCHANGED <<category, log, fmt_arg, fmt_ret, timer, setup, tk, event, log_frame, sort_history>>

\* AnalysisFrame.create_graph: 7, 30 or 365 from the radio buttons and the boxplot
GetDfSummary ==
    \E days \in {7, 30, 365} :
        /\ ret' = Returned("get_df_summary", days, get_df_summary(category, log, days))
        /\ UNCHANGED <<category, log, fmt_arg, fmt_ret, timer, setup, tk, event, log_frame, sort_history>>

Next ==
    \/ InsertTimestamp
    \/ InsertActivity
    \/ DeleteActivity
    \/ UpdateActivity
    \/ GetLogDf
    \/ GetDfLogSummary
    \/ GetDfLogSummaryWeeks
    \/ GetDfLogSummaryMonths
    \/ GetDfSummary

Spec == Init /\ [][Next]_vars

(***************************************************************************)
(* The formatters on their own: an argument is drawn, then formatted.      *)
(***************************************************************************)
\* minute and second counts tried: one and two digits, and the largest
EdgeValues == {0, 1, 9, 10, 59}

FmtInputs ==
    {h * 3600 + m * 60 + s : h \in 0..MaxHours, m \in EdgeValues, s \in EdgeValues}
        \cup {-1, -60, -3600}

InitFmt ==
    /\ category = << [id |-> 1, activity |-> InitActivity, grouping |-> InitGrouping] >>
    /\ log = << [id |-> 1, taskid |-> 1, start |-> At(FirstRun, Noon), stop |-> At(FirstRun, Noon)] >>
    /\ ret = NoRet
    /\ fmt_arg \in FmtInputs
    /\ fmt_ret = NoFmtRet
    /\ timer = TimerFrame
    /\ setup = SetupFrame
    /\ tk = Tk
    /\ event = NoEvent
    /\ log_frame = LogFrame(category, log)
    /\ sort_history = NoSortHistory

FormattedTime ==
    /\ fmt_ret' = [op |-> "formatted_time", text |-> formatted_time(fmt_arg)]
    /\ UNCHANGED <<category, log, ret, fmt_arg, timer, setup, tk, event, log_frame, sort_history>>

GetTimeHms ==
    /\ fmt_ret' = [op |-> "get_time_hms", text |-> get_time_hms(fmt_arg)]
    /\ UNCHANGED <<category, log, ret, fmt_arg, timer, setup, tk, event, log_frame, sort_history>>

NextFmt ==
    \/ FormattedTime
    \/ GetTimeHms

SpecFmt == InitFmt /\ [][NextFmt]_vars

(***************************************************************************)
(* The handlers of the timer tab and of the Set Timer button.              *)
(***************************************************************************)
\* pause() that leaves the start timestamp pending after it has logged it
pause_keeping_start(w, activity_int) ==
    LET w1 == [w EXCEPT !.timer.resetcd_button = "normal",
                        !.timer.resetsw_button = "normal",
                        !.setup.set_timer_button = "normal"]
        w2 == IF w1.timer.running
              THEN [w1 EXCEPT !.tk.after = @ \ {w1.timer.update_time},
                              !.timer.running = FALSE]
              ELSE w1
        timestamp_end == datetime_now(w2)
    IN  IF w2.timer.timestamp_start # <<>>
        THEN [w2 EXCEPT !.log = Append(@, [id |-> NextId(@), taskid |-> activity_int,
                                           start |-> w2.timer.timestamp_start[1],
                                           stop |-> timestamp_end])]
        ELSE w2

\* TimerFrame.pause: the buttons are enabled, the callback scheduled last is
\* cancelled if the timer runs, the interval is logged if a start timestamp
\* is pending, and the timestamps are reset
pause(w, activity_int) ==
    LET w1 == [w EXCEPT !.timer.resetcd_button = "normal",
                        !.timer.resetsw_button = "normal",
                        !.setup.set_timer_button = "normal"]
        w2 == IF w1.timer.running
              THEN [w1 EXCEPT !.tk.after = @ \ {w1.timer.update_time},
                              !.timer.running = FALSE]
              ELSE w1
        timestamp_end == datetime_now(w2)
        w3 == IF w2.timer.timestamp_start # <<>>
              THEN [w2 EXCEPT !.log = Append(@, [id |-> NextId(@), taskid |-> activity_int,
                                                 start |-> w2.timer.timestamp_start[1],
                                                 stop |-> timestamp_end])]
              ELSE w2
    IN  [w3 EXCEPT !.timer.timestamp_start = <<>>]

\* TimerFrame.update, called by start() or by Tk (handler names which): one
\* second off the countdown and onto the stopwatch, the progress bar, the
\* next callback, and at 0 pause() and the message box
update(w, activity_int, handler) ==
    LET w0 == [w EXCEPT !.timer.seconds_cd = @ - 1, !.timer.seconds_sw = @ + 1]
        w1 == [w0 EXCEPT !.timer.countdown_label = formatted_time(w0.timer.seconds_cd),
                         !.timer.stopwatch_label = formatted_time(w0.timer.seconds_sw)]
        w2 == [w1 EXCEPT !.timer.progress_calc =
                            [num |-> w1.timer.start_seconds_cd - w1.timer.seconds_cd,
                             den |-> w1.timer.start_seconds_cd]]
        w3 == [w2 EXCEPT !.tk.after = @ \cup {after(w2)}, !.timer.update_time = after(w2)]
    IN  IF w3.timer.seconds_cd = 0
        THEN showinfo(pause(w3, activity_int), handler)
        ELSE w3

\* the end of start(), after update() has returned
start_after_update(w) ==
    LET w1 == [w EXCEPT !.timer.running = TRUE]
    IN  IF w1.timer.timestamp_start = <<>>
        THEN [w1 EXCEPT !.timer.timestamp_start = <<datetime_now(w1)>>]
        ELSE w1

\* start() that calls update() whether the timer runs or not
start_always_update(w, activity_int) ==
    LET w1 == [w EXCEPT !.timer.resetcd_button = "disabled",
                        !.timer.resetsw_button = "disabled",
                        !.setup.set_timer_button = "disabled"]
        w2 == update(w1, activity_int, "start")
    IN  IF Len(w2.tk.dialogs) > Len(w1.tk.dialogs) THEN w2
        ELSE start_after_update(w2)

\* TimerFrame.start up to the return of update(), or through to its end when
\* update() opens no message box
start(w, activity_int) ==
    LET w1 == [w EXCEPT !.timer.resetcd_button = "disabled",
                        !.timer.resetsw_button = "disabled",
                        !.setup.set_timer_button = "disabled"]
    IN  IF ~w1.timer.running
        THEN LET w2 == update(w1, activity_int, "start")
             IN  IF Len(w2.tk.dialogs) > Len(w1.tk.dialogs) THEN w2
                 ELSE start_after_update(w2)
        ELSE IF w1.timer.timestamp_start = <<>>
             THEN [w1 EXCEPT !.timer.timestamp_start = <<datetime_now(w1)>>]
             ELSE w1

reset_stopwatch(w) ==
    LET w1 == IF w.timer.running
              THEN [w EXCEPT !.tk.after = @ \ {w.timer.update_time}, !.timer.running = FALSE]
              ELSE w
    IN  [w1 EXCEPT !.timer.seconds_sw = 0, !.timer.stopwatch_label = formatted_time(0)]

reset_countdown(w) ==
    LET w1 == IF w.timer.running
              THEN [w EXCEPT !.tk.after = @ \ {w.timer.update_time}, !.timer.running = FALSE]
              ELSE w
    IN  [w1 EXCEPT !.timer.seconds_cd = w1.timer.start_seconds_cd,
                   !.timer.progress_calc = [num |-> 0, den |-> 1],
                   !.timer.countdown_label = formatted_time(w1.timer.start_seconds_cd)]

\* int(text): an optional sign and decimal digits, else ValueError
int(text) ==
    LET digits == IF text # <<>> /\ text[1] \in {"-", "+"} THEN Tail(text) ELSE text
        IsDigit(c) == \E d \in 1..10 : Digits[d] = c
        Value(c) == (CHOOSE d \in 1..10 : Digits[d] = c) - 1
        Magnitude[n \in 0..Len(digits)] ==
            IF n = 0 THEN 0 ELSE Magnitude[n - 1] * 10 + Value(digits[n])
    IN  IF digits = <<>> \/ \E n \in 1..Len(digits) : ~IsDigit(digits[n])
        THEN [ValueError |-> TRUE, value |-> 0]
        ELSE [ValueError |-> FALSE,
              value |-> IF text[1] = "-" THEN 0 - Magnitude[Len(digits)]
                        ELSE Magnitude[Len(digits)]]

\* get_timer_input without the check for a goal of 00:00:00
get_timer_input_zero_goal(w, hours, mins, secs) ==
    LET h == int(hours)
        m == int(mins)
        s == int(secs)
        valid_num == ~h.ValueError /\ ~m.ValueError /\ ~s.ValueError
        valid_time ==
            /\ valid_num
            /\ ~(h.value < 0 \/ h.value > 24)
            /\ ~(m.value < 0 \/ m.value > 59)
            /\ ~(s.value < 0 \/ s.value > 59)
        total_seconds == get_total_seconds(h.value, m.value, s.value)
    IN  IF valid_time
        THEN [w EXCEPT !.timer.seconds_cd = total_seconds,
                       !.timer.countdown_label = formatted_time(total_seconds),
                       !.timer.start_seconds_cd = total_seconds,
                       !.timer.progress_calc = [num |-> 0, den |-> 1]]
        ELSE showinfo(w, "get_timer_input")

\* SetupFrame.get_timer_input: the three entries are converted and checked;
\* a message box tells what is wrong, else the goal is set on the timer frame
get_timer_input(w, hours, mins, secs) ==
    LET h == int(hours)
        m == int(mins)
        s == int(secs)
        valid_num == ~h.ValueError /\ ~m.ValueError /\ ~s.ValueError
        valid_time ==
            /\ valid_num
            /\ ~(h.value < 0 \/ h.value > 24)
            /\ ~(m.value < 0 \/ m.value > 59)
            /\ ~(s.value < 0 \/ s.value > 59)
            /\ ~(h.value = 0 /\ m.value = 0 /\ s.value = 0)
        total_seconds == get_total_seconds(h.value, m.value, s.value)
    IN  IF valid_time
        THEN [w EXCEPT !.timer.seconds_cd = total_seconds,
                       !.timer.countdown_label = formatted_time(total_seconds),
                       !.timer.start_seconds_cd = total_seconds,
                       !.timer.progress_calc = [num |-> 0, den |-> 1]]
        ELSE showinfo(w, "get_timer_input")

(***************************************************************************)
(* The timer and the Set Timer button as the user and Tk drive them.       *)
(***************************************************************************)
\* callbacks Tk runs before the model stops the clock
MaxTicks == 3

\* what the user types into the hour, minute and second entries
HourEntries == { <<"a">>, <<"-", "1">>, <<"0">>, <<"2", "4">>, <<"2", "5">> }
MinEntries  == { <<>>, <<"-", "1">>, <<"0">>, <<"5", "9">>, <<"6", "0">> }
SecEntries  == { <<"1", ".", "5">>, <<"-", "1">>, <<"0">>, <<"1">>, <<"2">>,
                 <<"5", "9">>, <<"6", "0">> }

\* the log table has room for what is logged and for the interval pending
RoomInLog(w) ==
    Len(w.log) + (IF w.timer.timestamp_start # <<>> THEN 1 ELSE 0) <= MaxLog

\* the world a handler leaves becomes the state
Handled(w, e) ==
    /\ RoomInLog(w)
    /\ timer' = w.timer
    /\ setup' = w.setup
    /\ tk' = w.tk
    /\ log' = w.log
    /\ event' = e
    /\ UNCHANGED <<category, ret, fmt_arg, fmt_ret, log_frame, sort_history>>

\* the activity selected in the option menu, as its primary key
category_dict == {category[i].id : i \in 1..Len(category)}

\* the Start button; a message box open takes the clicks of the main window
StartButton ==
    /\ tk.dialogs = <<>>
    /\ \E activity_int \in category_dict :
        LET w == start(World, activity_int)
        IN  /\ RoomInLog(IF w.tk.dialogs # <<>> THEN start_after_update(w) ELSE w)
            /\ Handled(w, [op |-> "start"])

PauseButton ==
    /\ tk.dialogs = <<>>
    /\ \E activity_int \in category_dict :
        Handled(pause(World, activity_int), [op |-> "pause"])

\* Tk runs a scheduled callback, a second after it was scheduled
AfterCallback ==
    /\ tk.now < MaxTicks
    /\ \E id \in tk.after, activity_int \in category_dict :
        LET w == [World EXCEPT !.tk.after = @ \ {id}, !.tk.now = @ + 1]
        IN  Handled(update(w, activity_int, "update"), [op |-> "update"])

\* the button 'Reset Bottom', if it is enabled
ResetStopwatchButton ==
    /\ tk.dialogs = <<>>
    /\ timer.resetcd_button = "normal"
    /\ Handled(reset_stopwatch(World), [op |-> "reset_stopwatch"])

\* the button 'Reset Top', if it is enabled
ResetCountdownButton ==
    /\ tk.dialogs = <<>>
    /\ timer.resetsw_button = "normal"
    /\ Handled(reset_countdown(World), [op |-> "reset_countdown"])

\* the button 'Set Timer', if it is enabled, with the entries as typed
SetTimer(hour_entries, min_entries, sec_entries) ==
    /\ tk.dialogs = <<>>
    /\ setup.set_timer_button = "normal"
    /\ \E hours \in hour_entries, mins \in min_entries, secs \in sec_entries :
        Handled(get_timer_input(World, hours, mins, secs),
                [op |-> "get_timer_input", hours |-> hours, mins |-> mins, secs |-> secs])

\* a goal of a second or two, or none
SetTimerButton == SetTimer({<<"0">>}, {<<"0">>}, {<<"0">>, <<"1">>, <<"2">>})

\* whatever may be typed
SetTimerEntries == SetTimer(HourEntries, MinEntries, SecEntries)

\* the message box on top is closed and the handler that opened it goes on
ShowinfoOk ==
    /\ tk.dialogs # <<>>
    /\ LET handler == tk.dialogs[Len(tk.dialogs)]
           w == [World EXCEPT !.tk.dialogs = SubSeq(@, 1, Len(@) - 1)]
       IN  Handled(IF handler = "start" THEN start_after_update(w) ELSE w,
                   [op |-> "showinfo_ok", handler |-> handler])

NextTimer ==
    \/ StartButton
    \/ PauseButton
    \/ AfterCallback
    \/ ResetStopwatchButton
    \/ ResetCountdownButton
    \/ SetTimerButton
    \/ ShowinfoOk

SpecTimer == Init /\ [][NextTimer]_vars

\* the Set Timer button with all that may be typed, between sessions of the timer
NextSetup ==
    \/ SetTimerEntries
    \/ ShowinfoOk
    \/ StartButton
    \/ PauseButton

SpecSetup == Init /\ [][NextSetup]_vars

(***************************************************************************)
(* The log tab of an application launched on a store that earlier sessions *)
(* filled.                                                                 *)
(***************************************************************************)
\* headings of how many columns are clicked while the application runs
MaxSorted == 2

\* start timestamps of the intervals the log tab is launched on: two days of
\* one week, and the day of the first run a year before
LogStarts == { At(FirstRun, Noon), At(Today - 8, TicksPerDay - 1), At(Today - 7, 0) }

\* the log tables earlier sessions leave: the entry of the first run and the
\* intervals logged since, in the order of their timestamps
Logs ==
    UNION {
        { [i \in 1..(n + 1) |->
              IF i = 1
              THEN [id |-> 1, taskid |-> 1, start |-> At(FirstRun, Noon), stop |-> At(FirstRun, Noon)]
              ELSE [id |-> i, taskid |-> 1, start |-> e[i - 1][1],
                    stop |-> AddTicks(e[i - 1][1], e[i - 1][2])]] :
          e \in { f \in [1..n -> LogStarts \X Durations] :
                    \A i \in 1..(n - 1) : NotAfter(f[i][1], f[i + 1][1]) } } :
        n \in 0..(MaxLog - 1) }

InitLog ==
    /\ category = << [id |-> 1, activity |-> InitActivity, grouping |-> InitGrouping] >>
    /\ log \in Logs
    /\ ret = NoRet
    /\ fmt_arg = 0
    /\ fmt_ret = NoFmtRet
    /\ timer = TimerFrame
    /\ setup = SetupFrame
    /\ tk = Tk
    /\ event = NoEvent
    /\ log_frame = LogFrame(category, log)
    /\ sort_history = NoSortHistory

\* a click on a segment of the segmented button other than the one selected:
\* the variable takes the value of the segment, then seg_button_callback
SegmentedButton ==
    \E value \in DOMAIN column_header_dict :
        /\ value # log_frame.seg_button_var
        /\ log_frame' = create_tree([log_frame EXCEPT !.seg_button_var = value], value)
        /\ event' = [op |-> "seg_button_callback", value |-> value]
        /\ UNCHANGED <<category, log, ret, fmt_arg, fmt_ret, timer, setup, tk, sort_history>>

\* the headings clicked so far, each with its view
SortedHeadings ==
    UNION { {<<v, col>> : col \in {c \in column_header_dict[v] : sort_history[v][c] # "none"}} :
            v \in DOMAIN column_header_dict }

\* a click on a heading of the tree: the command the heading has now
HeadingClick ==
    \E column \in DOMAIN log_frame.heading :
        LET ascending == HeadingCommand(log_frame, column)
            seg_button == log_frame.seg_button_var
        IN  /\ \/ sort_history[seg_button][column] # "none"
                \/ Cardinality(SortedHeadings) < MaxSorted
            /\ log_frame' \in sort_column(log_frame, column, ascending)
            /\ sort_history' = [sort_history EXCEPT ![seg_button][column] =
                                    IF ascending THEN "ascending" ELSE "descending"]
            /\ event' = [op |-> "sort_column", column |-> column, ascending |-> ascending]
            /\ UNCHANGED <<category, log, ret, fmt_arg, fmt_ret, timer, setup, tk>>

NextLog ==
    \/ SegmentedButton
    \/ HeadingClick

SpecLog == InitLog /\ [][NextLog]_vars

(***************************************************************************)
(* Reading a formatted text back: its colon-separated fields and the       *)
(* number a field of decimal digits denotes.                               *)
(***************************************************************************)
RECURSIVE Fields(_)
Fields(text) ==
    IF \A i \in 1..Len(text) : text[i] # ":" THEN <<text>>
    ELSE LET i == CHOOSE j \in 1..Len(text) :
                    text[j] = ":" /\ \A k \in 1..(j - 1) : text[k] # ":"
         IN  <<SubSeq(text, 1, i - 1)>> \o Fields(SubSeq(text, i + 1, Len(text)))

IsDigits(field) ==
    \A j \in 1..Len(field) : \E d \in 1..10 : Digits[d] = field[j]

RECURSIVE ParseDec(_)
ParseDec(field) ==
    IF field = <<>> THEN 0
    ELSE ParseDec(SubSeq(field, 1, Len(field) - 1)) * 10
            + (CHOOSE d \in 0..9 : Digits[d + 1] = field[Len(field)])

\* the seconds an hh:mm:ss text denotes
HmsValue(text) ==
    LET f == Fields(text)
    IN  ParseDec(f[1]) * 3600 + ParseDec(f[2]) * 60 + ParseDec(f[3])

(***************************************************************************)
(* Claims about the formatters, checked under SpecFmt.                     *)
(***************************************************************************)
\* C9: for a non-negative argument, formatted_time returns three
\* colon-separated fields of exactly two decimal digits: the hours modulo 24,
\* the minutes modulo 60 and the seconds modulo 60.
C9_FormattedTimeFields ==
    (fmt_ret.op = "formatted_time" /\ fmt_arg >= 0) =>
        LET f == Fields(fmt_ret.text)
        IN  /\ Len(f) = 3
            /\ \A i \in 1..3 : Len(f[i]) = 2 /\ IsDigits(f[i])
            /\ ParseDec(f[1]) = (fmt_arg \div 3600) % 24
            /\ ParseDec(f[2]) = (fmt_arg \div 60) % 60
            /\ ParseDec(f[3]) = fmt_arg % 60

\* 25 hours and 59 seconds have been formatted: the hour field wrapped to 01
C9_Witness ==
    /\ fmt_ret.op = "formatted_time"
    /\ fmt_arg = 25 * 3600 + 59
    /\ fmt_ret.text = <<"0", "1", ":", "0", "0", ":", "5", "9">>

\* C10: for a non-negative argument, get_time_hms returns the whole hours
\* without any wrap, padded to two digits and never cut when they need more,
\* and two-digit minute and second fields in 0..59.
C10_UnrestrictedHours ==
    (fmt_ret.op = "get_time_hms" /\ fmt_arg >= 0) =>
        LET f == Fields(fmt_ret.text)
        IN  /\ Len(f) = 3
            /\ \A i \in 1..3 : IsDigits(f[i])
            /\ Len(f[1]) >= 2
            /\ Len(f[1]) > 2 => f[1][1] # "0"
            /\ ParseDec(f[1]) = fmt_arg \div 3600
            /\ Len(f[2]) = 2 /\ ParseDec(f[2]) = (fmt_arg \div 60) % 60
            /\ Len(f[3]) = 2 /\ ParseDec(f[3]) = fmt_arg % 60
            /\ ParseDec(f[2]) \in 0..59 /\ ParseDec(f[3]) \in 0..59

\* 120 hours have been formatted as 120:00:00
C10_Witness ==
    /\ fmt_ret.op = "get_time_hms"
    /\ fmt_arg = 120 * 3600
    /\ fmt_ret.text = <<"1", "2", "0", ":", "0", "0", ":", "0", "0">>

\* C11: whenever the argument get_time_hms was given is
\* get_total_seconds(h, m, s) for some h >= 0 and m, s in 0..59, the text it
\* returns reads back as exactly the fields h, m and s.
C11_RoundTrip ==
    fmt_ret.op = "get_time_hms" =>
        \A h \in 0..MaxHours, m \in EdgeValues, s \in EdgeValues :
            get_total_seconds(h, m, s) = fmt_arg =>
                LET f == Fields(fmt_ret.text)
                IN  /\ Len(f) = 3
                    /\ ParseDec(f[1]) = h
                    /\ ParseDec(f[2]) = m
                    /\ ParseDec(f[3]) = s

\* the total of 100 h 59 min 59 s has been decomposed into 100:59:59
C11_Witness ==
    /\ fmt_ret.op = "get_time_hms"
    /\ fmt_arg = get_total_seconds(100, 59, 59)
    /\ fmt_ret.text = <<"1", "0", "0", ":", "5", "9", ":", "5", "9">>

(***************************************************************************)
(* What the store holds, stated apart from the engine: the joinable        *)
(* intervals and their elapsed whole seconds.                              *)
(***************************************************************************)
Joinable(l) == \E i \in 1..Len(category) : category[i].id = l.taskid

JoinableIdx == {i \in 1..Len(log) : Joinable(log[i])}

\* the whole number of seconds nearest to a count of ticks, the even one of two
NearestSecond(ticks) ==
    LET Dist(n) == IF ticks >= n * TicksPerSec THEN ticks - n * TicksPerSec
                   ELSE n * TicksPerSec - ticks
        cand == {ticks \div TicksPerSec, ticks \div TicksPerSec + 1}
    IN  CHOOSE n \in cand :
            \A m \in cand \ {n} : Dist(n) < Dist(m) \/ (Dist(n) = Dist(m) /\ n % 2 = 0)

ElapsedTicks(i) ==
    (log[i].stop.day - log[i].start.day) * 24 * 3600 * TicksPerSec
        + log[i].stop.tod - log[i].start.tod

RECURSIVE SumOver(_, _)
SumOver(S, f) ==
    IF S = {} THEN 0
    ELSE LET x == CHOOSE y \in S : TRUE IN f[x] + SumOver(S \ {x}, f)

\* the rounded seconds of a set of intervals, added up
TotalSeconds(S) == SumOver(S, [i \in S |-> NearestSecond(ElapsedTicks(i))])

\* a text is the unrestricted hh:mm:ss of a number of seconds
IsHmsOf(text, total) ==
    LET f == Fields(text)
    IN  /\ Len(f) = 3
        /\ \A i \in 1..3 : IsDigits(f[i]) /\ Len(f[i]) >= 2
        /\ Len(f[2]) = 2 /\ Len(f[3]) = 2
        /\ ParseDec(f[1]) = total \div 3600
        /\ ParseDec(f[2]) = (total \div 60) % 60
        /\ ParseDec(f[3]) = total % 60

\* the calendar dates on which joinable intervals start
PopulatedDates == {log[i].start.day : i \in JoinableIdx}

(***************************************************************************)
(* Claims about the aggregation engine, checked under Spec.                *)
(***************************************************************************)
\* C1: get_df_log_summary returns exactly one row per distinct start date of
\* the joinable intervals, and the row's text is the unrestricted hh:mm:ss of
\* the sum of the rounded seconds of all intervals starting on that date.
C1_DailyRows ==
    (ret.op = "get_df_log_summary" /\ JoinableIdx # {}) =>
        /\ ~ret.raised
        /\ Len(ret.rows) = Cardinality(PopulatedDates)
        /\ {ret.rows[j].date : j \in 1..Len(ret.rows)} = PopulatedDates
        /\ \A j \in 1..Len(ret.rows) :
              IsHmsOf(ret.rows[j].hms_duration,
                      TotalSeconds({i \in JoinableIdx : log[i].start.day = ret.rows[j].date}))

\* a daily row adds up two intervals of two activities on one date, more than
\* a day in all
C1_Witness ==
    /\ ret.op = "get_df_log_summary"
    /\ ~ret.raised
    /\ \E j \in 1..Len(ret.rows) : \E a, b \in JoinableIdx :
          /\ log[a].taskid # log[b].taskid
          /\ log[a].start.day = ret.rows[j].date
          /\ log[b].start.day = ret.rows[j].date
          /\ HmsValue(ret.rows[j].hms_duration) >= 24 * 3600

\* C3 as claimed: with no joinable interval every aggregation returns an
\* empty sequence and does not raise.
C3_EmptyResult ==
    (ret.op # "none" /\ JoinableIdx = {}) => (~ret.raised /\ ret.rows = <<>>)

\* the weekdays on which joinable intervals start
PopulatedWeekdays == {(log[i].start.day + 6) % 7 : i \in JoinableIdx}

\* the (date, weekday) buckets a call of get_df_summary has to show
BucketsInWindow(days) ==
    { <<d, DayNames[((d + 6) % 7) + 1]>> :
        d \in {e \in PopulatedDates : (days \in {7, 30}) => e >= Today - days} }

\* C4: when the joinable intervals cover only some of the seven weekdays,
\* get_df_log_summary and get_df_summary return without raising, and their
\* rows are exactly the populated (date, weekday) buckets (of the window asked
\* for), each once.
C4_SparseWeekdays ==
    (/\ ret.op \in {"get_df_log_summary", "get_df_summary"}
     /\ JoinableIdx # {}
     /\ PopulatedWeekdays # 0..6) =>
        /\ ~ret.raised
        /\ LET buckets == BucketsInWindow(IF ret.op = "get_df_summary" THEN ret.days ELSE 0)
           IN  /\ Len(ret.rows) = Cardinality(buckets)
               /\ {<<ret.rows[j].date, ret.rows[j].DayOfWeek>> : j \in 1..Len(ret.rows)} = buckets

\* only a Tuesday and a Thursday have entries: get_df_summary returned these
\* two buckets, the weekday order not imposed
C4_Witness ==
    /\ ret.op = "get_df_summary"
    /\ ~ret.raised
    /\ ~ret.ordered
    /\ {ret.rows[j].DayOfWeek : j \in 1..Len(ret.rows)} = {"Tuesday", "Thursday"}
    /\ Len(ret.rows) = 2

\* an interval is a row of the enriched log of a store
InLogDf(cat, lg, id) ==
    LET df == get_log_df(cat, lg)
    IN  \E j \in 1..Len(df.rows) : df.rows[j].id = id

\* the row of an interval in the enriched log of a store
LogDfRow(cat, lg, id) ==
    LET df == get_log_df(cat, lg)
    IN  df.rows[CHOOSE j \in 1..Len(df.rows) : df.rows[j].id = id]

\* C2 as claimed: an interval whose activity has been deleted is in no later
\* enriched log, from which all summaries are made, and a delete leaves the
\* enriched row of every interval of the remaining activities as it was.
C2_DeletedStayOut ==
    [][ \A i \in 1..Len(log) :
          /\ ~InLogDf(category, log, log[i].id) => ~InLogDf(category', log', log[i].id)
          /\ (Len(category') < Len(category) /\ InLogDf(category', log', log[i].id)) =>
                (/\ InLogDf(category, log, log[i].id)
                 /\ LogDfRow(category', log', log[i].id) = LogDfRow(category, log, log[i].id))
      ]_vars

\* the Monday on or before a date
MondayOnOrBefore(d) == CHOOSE m \in (d - 6)..d : (m + 6) % 7 = 0

\* what get_df_log_summary_weeks returns, but for the Wednesday example
WeeklyRows ==
    LET mondays == {MondayOnOrBefore(d) : d \in PopulatedDates}
    IN  /\ ~ret.raised
        /\ Len(ret.rows) = Cardinality(mondays)
        /\ {ret.rows[j].week_start : j \in 1..Len(ret.rows)} = mondays
        /\ \A j \in 1..Len(ret.rows) :
              /\ ret.rows[j].day = "Monday"
              /\ IsHmsOf(ret.rows[j].hms_duration,
                    TotalSeconds({i \in JoinableIdx :
                        log[i].start.day \in ret.rows[j].week_start..(ret.rows[j].week_start + 6)}))

\* C5 as claimed: the weekly rows are those of the Mondays on or before the
\* start dates, and an interval starting on a Wednesday is counted under the
\* date three days earlier.
C5_WednesdayThreeDays ==
    (ret.op = "get_df_log_summary_weeks" /\ JoinableIdx # {}) =>
        /\ WeeklyRows
        /\ \A i \in JoinableIdx : (log[i].start.day + 6) % 7 = 2 =>
              \E j \in 1..Len(ret.rows) : ret.rows[j].week_start = log[i].start.day - 3

\* C5 amended: get_df_log_summary_weeks returns one row per Monday on or before
\* a start date, labelled Monday, whose text is the unrestricted hh:mm:ss of
\* the rounded seconds of the intervals starting from that Monday to the
\* Sunday after it; an interval starting on a Wednesday is counted under the
\* date two days earlier.
C5_WeeklyRows ==
    (ret.op = "get_df_log_summary_weeks" /\ JoinableIdx # {}) =>
        /\ WeeklyRows
        /\ \A i \in JoinableIdx : (log[i].start.day + 6) % 7 = 2 =>
              \E j \in 1..Len(ret.rows) : ret.rows[j].week_start = log[i].start.day - 2

\* a weekly row adds up a Tuesday and a Wednesday interval under the Monday
\* before them
C5_Witness ==
    /\ ret.op = "get_df_log_summary_weeks"
    /\ ~ret.raised
    /\ \E j \in 1..Len(ret.rows) : \E a, b \in JoinableIdx :
          /\ (log[a].start.day + 6) % 7 = 1
          /\ (log[b].start.day + 6) % 7 = 2
          /\ ret.rows[j].week_start = log[a].start.day - 1
          /\ ret.rows[j].week_start = log[b].start.day - 2
          /\ HmsValue(ret.rows[j].hms_duration) >= 24 * 3600

\* the (year, month) of a day
YearMonthOf(day) == LET d == ymd(day) IN <<d.year, d.month>>

\* the (year, month) pairs in which joinable intervals start
PopulatedMonths == {YearMonthOf(d) : d \in PopulatedDates}

\* C6: get_df_log_summary_months returns one row per distinct (year, month) of
\* the start timestamps, keyed "YYYY MM" and labelled with the month
\* abbreviation, whose text is the unrestricted hh:mm:ss of the rounded
\* seconds of the intervals starting in that month of that year.
C6_MonthlyRows ==
    (ret.op = "get_df_log_summary_months" /\ JoinableIdx # {}) =>
        /\ ~ret.raised
        /\ Len(ret.rows) = Cardinality(PopulatedMonths)
        /\ \A j \in 1..Len(ret.rows) :
              LET key == ret.rows[j].year_month
                  y == ParseDec(SubSeq(key, 1, 4))
                  m == ParseDec(SubSeq(key, 6, 7))
              IN  /\ Len(key) = 7
                  /\ key[5] = " "
                  /\ IsDigits(SubSeq(key, 1, 4)) /\ IsDigits(SubSeq(key, 6, 7))
                  /\ <<y, m>> \in PopulatedMonths
                  /\ ret.rows[j].month_name = MonthAbbr[m]
                  /\ IsHmsOf(ret.rows[j].hms_duration,
                        TotalSeconds({i \in JoinableIdx :
                            YearMonthOf(log[i].start.day) = <<y, m>>}))
        /\ \A j, k \in 1..Len(ret.rows) :
              ret.rows[j].year_month = ret.rows[k].year_month => j = k

\* March of two years: two rows with the same label and different keys
C6_Witness ==
    /\ ret.op = "get_df_log_summary_months"
    /\ ~ret.raised
    /\ \E j, k \in 1..Len(ret.rows) :
          /\ ret.rows[j].month_name = ret.rows[k].month_name
          /\ ret.rows[j].year_month # ret.rows[k].year_month

\* C7: get_df_summary with days 7 (30) returns exactly the daily buckets dated
\* today minus 7 (30) days or later: the bucket of that very date is in, the
\* bucket of the day before is out.
C7_WindowRows ==
    (ret.op = "get_df_summary" /\ ret.days \in {7, 30} /\ JoinableIdx # {}) =>
        /\ ~ret.raised
        /\ Len(ret.rows) = Cardinality({d \in PopulatedDates : d >= Today - ret.days})
        /\ {ret.rows[j].date : j \in 1..Len(ret.rows)}
              = {d \in PopulatedDates : d >= Today - ret.days}

\* intervals start 7 and 8 days ago: the 7 day window keeps only the first
C7_Witness ==
    /\ ret.op = "get_df_summary"
    /\ ret.days = 7
    /\ Today - 7 \in PopulatedDates
    /\ Today - 8 \in PopulatedDates
    /\ \E j \in 1..Len(ret.rows) : ret.rows[j].date = Today - 7
    /\ \A j \in 1..Len(ret.rows) : ret.rows[j].date # Today - 8

\* C8: get_df_summary with a days value other than 7 and 30 (365 from the
\* All Days button and the boxplot) filters nothing: it returns every daily
\* bucket, those older than 365 days too.
C8_NoFilter ==
    (ret.op = "get_df_summary" /\ ret.days \notin {7, 30} /\ JoinableIdx # {}) =>
        /\ ~ret.raised
        /\ Len(ret.rows) = Cardinality(PopulatedDates)
        /\ {ret.rows[j].date : j \in 1..Len(ret.rows)} = PopulatedDates

\* buckets 366 and 31 days old are returned for days = 365
C8_Witness ==
    /\ ret.op = "get_df_summary"
    /\ ret.days = 365
    /\ \E j \in 1..Len(ret.rows) : ret.rows[j].date = Today - 366
    /\ \E j \in 1..Len(ret.rows) : ret.rows[j].date = Today - 31

(***************************************************************************)
(* Claims about the calls as a whole, checked under Spec.                  *)
(***************************************************************************)
\* C12: a step in which an aggregation call returns (get_log_df, the daily,
\* weekly and monthly summaries, get_df_summary) leaves the category table
\* and the log table exactly as they were.
C12_StoreUnchanged ==
    [][ret'.op # "none" => (category' = category /\ log' = log)]_vars

\* a summary has been returned from a store holding logged intervals, one of
\* them of a deleted activity
C12_Witness ==
    /\ ret.op = "get_df_log_summary_weeks"
    /\ ~ret.raised
    /\ Len(log) = MaxLog
    /\ \E i \in 1..Len(log) : ~Joinable(log[i])

\* the activity of an interval in the category table as it is now
ActivityOf(l) == category[CHOOSE i \in 1..Len(category) : category[i].id = l.taskid]

\* C13: what an aggregation call returns is determined by the store as it is
\* at the call, whatever inserts, edits, deletes and calls came before: the
\* call fails exactly when no interval is joinable, and the enriched log has
\* one row per joinable interval now in the log table, with its timestamps
\* and the name and grouping its activity has now.
C13_FreshResult ==
    ret.op # "none" =>
        /\ ret.raised = (JoinableIdx = {})
        /\ (ret.op = "get_log_df" /\ ~ret.raised) =>
              /\ Len(ret.rows) = Cardinality(JoinableIdx)
              /\ \A i \in JoinableIdx : \E j \in 1..Len(ret.rows) :
                    /\ ret.rows[j].id = log[i].id
                    /\ ret.rows[j].start = log[i].start
                    /\ ret.rows[j].stop = log[i].stop
                    /\ ret.rows[j].activity = ActivityOf(log[i]).activity
                    /\ ret.rows[j].grouping = ActivityOf(log[i]).grouping

\* the enriched log has been returned after inserts, an edit of the
\* placeholder activity and the delete of an activity with a logged interval
C13_Witness ==
    /\ ret.op = "get_log_df"
    /\ Len(ret.rows) = 2
    /\ \E j \in 1..Len(ret.rows) : ret.rows[j].activity = "A" /\ ret.rows[j].id = 1
    /\ \E i \in 1..Len(log) : ~Joinable(log[i])

\* the place of a weekday name in the week, Monday first
CanonicalIndex(name) == CHOOSE d \in 1..7 : DayNames[d] = name

\* C14 as claimed: in what get_df_log_summary and get_df_summary return, the
\* categories of the DayOfWeek column are the weekdays present, listed in
\* Monday-first order, whether all seven weekdays occur or only some.
C14_CanonicalOrder ==
    (ret.op \in {"get_df_log_summary", "get_df_summary"} /\ ~ret.raised) =>
        /\ {CanonicalIndex(ret.categories[a]) - 1 : a \in 1..Len(ret.categories)}
              = PopulatedWeekdays
        /\ \A a, b \in 1..Len(ret.categories) :
              a < b => CanonicalIndex(ret.categories[a]) < CanonicalIndex(ret.categories[b])

(***************************************************************************)
(* Claims about the timer, checked under SpecTimer.                        *)
(***************************************************************************)
\* pause() runs in the step: the Pause button, or an update() that brings
\* the countdown to 0
PauseRuns ==
    \/ event'.op = "pause"
    \/ /\ event'.op \in {"update", "start"}
       /\ timer.seconds_cd = 1
       /\ timer'.seconds_cd = 0

\* C15: the log grows only in a step in which pause() runs with a start
\* timestamp pending, then by the one entry from that timestamp to now, and
\* pause() leaves no timestamp pending; a pause() with none pending logs
\* nothing, and no other handler drops a pending timestamp.
C15_OneEntryPerSession ==
    [][ IF PauseRuns
        THEN /\ timer'.timestamp_start = <<>>
             /\ IF timer.timestamp_start # <<>>
                THEN /\ Len(log') = Len(log) + 1
                     /\ SubSeq(log', 1, Len(log)) = log
                     /\ log'[Len(log')].start = timer.timestamp_start[1]
                     /\ log'[Len(log')].stop = datetime_now(World')
                ELSE log' = log
        ELSE /\ log' = log
             /\ timer.timestamp_start # <<>> => timer'.timestamp_start = timer.timestamp_start
      ]_vars

\* the Pause button has ended a session of two seconds, now in the log
C15_Witness ==
    /\ event.op = "pause"
    /\ timer.timestamp_start = <<>>
    /\ Len(log) = 2
    /\ log[2].stop.tod = log[2].start.tod + 2 * TicksPerSec

\* C16 as claimed: when the handling of an event in which update() brought
\* the countdown to 0 is over (its message box closed), the timer is
\* stopped: running is False and no callback is scheduled.
C16_StoppedAtZero ==
    [][ (event'.op = "showinfo_ok" /\ event'.handler \in {"update", "start"}) =>
            (~timer'.running /\ tk'.after = {})
      ]_vars

\* C17 as claimed: while the timer is ticking and no handler is under way,
\* the two reset buttons and the Set Timer button are disabled.
C17_DisabledWhileTicking ==
    (tk.dialogs = <<>> /\ (timer.running \/ tk.after # {})) =>
        /\ timer.resetcd_button = "disabled"
        /\ timer.resetsw_button = "disabled"
        /\ setup.set_timer_button = "disabled"

\* C18: a Start press while the timer runs leaves the timer, the callbacks
\* scheduled and the log as they are, the pending start timestamp included;
\* at most one callback is scheduled at any time; and each second gone by
\* takes exactly 1 off the countdown and puts exactly 1 onto the stopwatch.
C18_OneTickLoop ==
    [][ /\ (event'.op = "start" /\ timer.running) =>
              /\ timer'.running
              /\ timer'.timestamp_start = timer.timestamp_start
              /\ timer'.seconds_cd = timer.seconds_cd
              /\ timer'.seconds_sw = timer.seconds_sw
              /\ timer'.update_time = timer.update_time
              /\ tk' = tk
              /\ log' = log
        /\ Cardinality(tk'.after) <= 1
        /\ tk'.now # tk.now =>
              /\ tk'.now = tk.now + 1
              /\ timer'.seconds_cd = timer.seconds_cd - 1
              /\ timer'.seconds_sw = timer.seconds_sw + 1
      ]_vars

\* Start, a second, and Start again: the timer runs on with the start
\* timestamp of the first press and one callback scheduled
C18_Witness ==
    /\ event.op = "start"
    /\ timer.running
    /\ timer.start_seconds_cd = get_total_seconds(8, 0, 0)
    /\ timer.seconds_cd = timer.start_seconds_cd - 2
    /\ timer.seconds_sw = 2
    /\ tk.now = 1
    /\ Len(log) = 1
    /\ timer.timestamp_start = <<At(Today, Noon)>>
    /\ Cardinality(tk.after) = 1

(***************************************************************************)
(* Claims about the Set Timer button, checked under SpecSetup.             *)
(***************************************************************************)
\* the digits of an entry, without its sign
Unsigned(entry) ==
    IF entry # <<>> /\ entry[1] \in {"-", "+"} THEN Tail(entry) ELSE entry

\* an entry reads as an integer
IsInteger(entry) == Unsigned(entry) # <<>> /\ IsDigits(Unsigned(entry))

\* the integer an entry reads as
IntegerOf(entry) ==
    IF entry[1] = "-" THEN 0 - ParseDec(Unsigned(entry)) ELSE ParseDec(Unsigned(entry))

\* the entries are a goal the Set Timer button takes
AcceptedGoal(hours, mins, secs) ==
    /\ IsInteger(hours) /\ IsInteger(mins) /\ IsInteger(secs)
    /\ IntegerOf(hours) \in 0..24
    /\ IntegerOf(mins) \in 0..59
    /\ IntegerOf(secs) \in 0..59
    /\ IntegerOf(hours) + IntegerOf(mins) + IntegerOf(secs) > 0

\* C19: a press of Set Timer with entries that read as integers, hours in
\* 0..24, minutes and seconds in 0..59 and not all zero, sets seconds_cd and
\* start_seconds_cd to hours*3600 + minutes*60 + seconds and the progress to
\* 0, and besides the countdown label nothing else of the timer; with any
\* other entries it leaves the timer as it was.
C19_GoalOnlyWhenValid ==
    [][ event'.op = "get_timer_input" =>
          IF AcceptedGoal(event'.hours, event'.mins, event'.secs)
          THEN LET total == IntegerOf(event'.hours) * 3600 + IntegerOf(event'.mins) * 60
                                + IntegerOf(event'.secs)
               IN  timer' = [timer EXCEPT !.seconds_cd = total,
                                          !.start_seconds_cd = total,
                                          !.progress_calc = [num |-> 0, den |-> 1],
                                          !.countdown_label = timer'.countdown_label]
          ELSE timer' = timer
      ]_vars

\* after a session of the timer the largest goal, 24:59:59, has been set
C19_Witness ==
    /\ event.op = "get_timer_input"
    /\ event.hours = <<"2", "4">> /\ event.mins = <<"5", "9">> /\ event.secs = <<"5", "9">>
    /\ timer.seconds_cd = 89999
    /\ timer.start_seconds_cd = 89999
    /\ timer.seconds_sw = 1
    /\ Len(log) = 2

(***************************************************************************)
(* Claims about the add and edit windows, checked under Spec.              *)
(***************************************************************************)
\* C20 as claimed: after any sequence of adds and edits (and deletes), the
\* activity names in the category table are non-blank and pairwise distinct.
C20_DistinctNames ==
    /\ \A i \in 1..Len(category) : category[i].activity # ""
    /\ \A i, j \in 1..Len(category) :
          i # j => category[i].activity # category[j].activity

(***************************************************************************)
(* Claims about the countdown, checked under SpecTimer.                    *)
(***************************************************************************)
\* C22 as claimed: the countdown never goes below 0, and the elapsed amount
\* start_seconds_cd - seconds_cd that the progress bar is given lies between
\* 0 and start_seconds_cd.
C22_CountdownNotNegative ==
    /\ timer.seconds_cd >= 0
    /\ timer.start_seconds_cd - timer.seconds_cd \in 0..timer.start_seconds_cd
    /\ timer.progress_calc.num \in 0..timer.progress_calc.den

(***************************************************************************)
(* Claims about the countdown label, checked under SpecSetup.              *)
(***************************************************************************)
\* C23 as claimed: after a press of Set Timer with a goal it takes, the
\* countdown label shows three fields that read as the hours, the minutes
\* and the seconds entered, the 24 hours that are taken included.
C23_LabelShowsGoal ==
    (event.op = "get_timer_input" /\ AcceptedGoal(event.hours, event.mins, event.secs)) =>
        LET f == Fields(timer.countdown_label)
        IN  /\ Len(f) = 3
            /\ ParseDec(f[1]) = IntegerOf(event.hours)
            /\ ParseDec(f[2]) = IntegerOf(event.mins)
            /\ ParseDec(f[3]) = IntegerOf(event.secs)

\* the bucket key of each view
KeyColumn == [Days |-> "date", Weeks |-> "week_start", Months |-> "year_month"]

\* the rows are in the order of the column, in the direction given
SortedBy(df, rows, column, ascending) ==
    \A i, j \in 1..Len(rows) :
        i < j => IF ascending
                 THEN ~ValueLess(df, column, rows[j][column], rows[i][column])
                 ELSE ~ValueLess(df, column, rows[i][column], rows[j][column])

\* the same rows, each as often, in some order
SameRows(rows, other) ==
    /\ Len(rows) = Len(other)
    /\ \E q \in Permutations(1..Len(rows)) : \A i \in 1..Len(rows) : rows[i] = other[q[i]]

\* a click on a heading has just sorted the view
HeadingClicked == event'.op = "sort_column" /\ log_frame'.heading # log_frame.heading

\* C21: a view none of whose headings was clicked shows its rows ascending by
\* the bucket key; a click on a heading leaves the tree showing the rows of
\* the view sorted by the column of the heading, and every click on a heading
\* after the first sorts in the direction opposite to the one the click
\* before on that heading sorted in.
C21_ClicksAlternate ==
    [][LET v == log_frame'.seg_button_var
           df == log_frame'.df_method_dict[v]
       IN  /\ (\A c \in column_header_dict[v] : sort_history'[v][c] = "none") =>
                    SortedBy(df, log_frame'.tree, KeyColumn[v], TRUE)
           /\ HeadingClicked =>
                /\ log_frame'.tree = df.rows
                /\ SameRows(log_frame'.tree, log_frame.tree)
                /\ SortedBy(df, log_frame'.tree, event'.column, event'.ascending)
                /\ sort_history[v][event'.column] # "none" =>
                        sort_history'[v][event'.column] # sort_history[v][event'.column]
      ]_vars

(***************************************************************************)
(* The three grains of the log summaries on one store, checked under Spec. *)
(***************************************************************************)
\* the seconds the hms_duration texts of the rows denote, added up
GrandTotal(rows) == SumSeq([j \in 1..Len(rows) |-> HmsValue(rows[j].hms_duration)])

\* C24: on a store with joinable intervals, the seconds of all rows of the
\* daily summary, of the weekly summary and of the monthly summary each add
\* up to the sum of the rounded seconds of the joinable intervals, and so to
\* the same total at every grain: each interval is counted once at each
\* grain.  Every store is followed by a call of each of the three.
C24_GrandTotalsAgree ==
    (/\ ret.op \in {"get_df_log_summary", "get_df_log_summary_weeks", "get_df_log_summary_months"}
     /\ JoinableIdx # {}) =>
        /\ ~ret.raised
        /\ GrandTotal(ret.rows) = TotalSeconds(JoinableIdx)

\* the weekly summary was fetched on a store whose joinable intervals fall on
\* more dates than weeks and in more weeks than one
C24_Witness ==
    /\ ret.op = "get_df_log_summary_weeks"
    /\ ~ret.raised
    /\ Len(ret.rows) >= 2
    /\ Cardinality(PopulatedDates) > Len(ret.rows)
    /\ GrandTotal(ret.rows) >= 24 * 3600

\* C25: get_df_summary with no filter and get_df_log_summary return the same
\* (date, weekday) buckets, and the duration of each bucket of get_df_summary,
\* in seconds, is the number of seconds get_df_log_summary formats for that
\* bucket, also when intervals do not last whole seconds.
C25_SameSecondsPerBucket ==
    (ret.op = "get_df_summary" /\ ret.days \notin {7, 30} /\ JoinableIdx # {}) =>
        LET daily == get_df_log_summary(category, log)
        IN  /\ ~ret.raised /\ ~daily.raised
            /\ {<<ret.rows[j].date, ret.rows[j].DayOfWeek>> : j \in 1..Len(ret.rows)}
                  = {<<daily.rows[k].date, daily.rows[k].DayOfWeek>> : k \in 1..Len(daily.rows)}
            /\ \A j \in 1..Len(ret.rows), k \in 1..Len(daily.rows) :
                  ret.rows[j].date = daily.rows[k].date =>
                      ret.rows[j].duration.num * 3600
                          = HmsValue(daily.rows[k].hms_duration) * ret.rows[j].duration.den

====
